---- MODULE Spec2Model ----
(***************************************************************************)
(* A model of the Legal-Agent pipeline (agent.py and the modules under     *)
(* src/): text preparation, the chunk-summary cache, the section           *)
(* extractor, the rule checker and the orchestrator process_legislation.   *)
(*                                                                         *)
(* A Python str is a sequence of one-character strings.  The character     *)
(* written NonAscii stands for any code point above 0x7F that is not       *)
(* white space.                                                            *)
(***************************************************************************)
EXTENDS Integers, Sequences, FiniteSets, TLC

VARIABLES
    \* text_utils, exercised on its own
    text, chunk_size, cleaned, recleaned, chunks, tstep,
    \* the cache file, and the cache exercised on its own
    cache_file, saved, loaded, cstep,
    \* the section extractor and the rule checker, each exercised on its own
    response, sections_out, checks_out, sstep,
    \* process_legislation: where the run is, its locals, the calls to the
    \* model it has made, the output file, and what the run started from
    pc, pdf, raw_text, cleaned_text, doc_chunks, summaries, chunk_summaries,
    combine_arg, final_summary, sections, rule_checks, results, abort_exc,
    calls, output_file, start_cache, cache_writes, output_writes,
    \* the list of summaries a run last wrote to the cache file, None before
    last_written

textVars == <<text, chunk_size, cleaned, recleaned, chunks, tstep>>
cacheVars == <<saved, loaded, cstep>>
sectVars == <<response, sections_out, checks_out, sstep>>

pipeVars ==
    <<pc, pdf, raw_text, cleaned_text, doc_chunks, summaries, chunk_summaries,
      combine_arg, final_summary, sections, rule_checks, results, abort_exc,
      calls, output_file, start_cache, cache_writes, output_writes, last_written>>

vars == <<textVars, cache_file, cacheVars, sectVars, pipeVars>>

\* what the actions of one part leave alone
outsideText == <<cache_file, cacheVars, sectVars, pipeVars>>
outsideCache == <<textVars, sectVars, pipeVars>>
outsideSect == <<textVars, cache_file, cacheVars, pipeVars>>
outsidePipe == <<textVars, cacheVars, sectVars>>

(***************************************************************************)
(* Bounds                                                                  *)
(***************************************************************************)
\* longest text handed to chunk_text on its own
MaxTextLen == 5
\* largest chunk_size tried
MaxChunkSize == 3
\* number of fragments an input of clean_text is made of
MaxFrags == 5
\* longest list of chunk summaries saved to the cache
MaxSummaries == 2
\* longest list inside a sample JSON document
MaxItems == 1
\* the chunk size of the pipeline: stands for the default 6000 of
\* chunk_text, scaled to the documents of the model
ChunkSize == 2
\* the longest integer literal int() converts: stands for the 4300 of
\* sys.get_int_max_str_digits(), scaled to the documents of the model
IntMaxStrDigits == 2

Max(S) == CHOOSE x \in S : \A y \in S : y <= x
Min2(a, b) == IF a < b THEN a ELSE b

(***************************************************************************)
(* src/src/text_utils.py                                                   *)
(***************************************************************************)
NonAscii == "U+00E9"
DigitChars == {"0", "1", "2", "3", "4", "5", "6", "7", "8", "9"}
\* \s of the re module, restricted to the ASCII characters
SpaceChars == {" ", "\n", "\t", "\r", "\f"}

IsDigit(c) == c \in DigitChars
IsSpace(c) == c \in SpaceChars
IsNewline(c) == c = "\n"
IsNonAscii(c) == c = NonAscii

\* s[i..] starts with the literal lit
StartsWith(s, i, lit) ==
    /\ i + Len(lit) - 1 <= Len(s)
    /\ \A k \in 1..Len(lit) : s[i + k - 1] = lit[k]

\* the position after the longest run of \s, \d, \n, non-ASCII starting at i
SkipSpace(s, i) ==
    CHOOSE j \in i..(Len(s) + 1) :
        /\ \A k \in i..(j - 1) : IsSpace(s[k])
        /\ (j = Len(s) + 1 \/ ~IsSpace(s[j]))
SkipDigits(s, i) ==
    CHOOSE j \in i..(Len(s) + 1) :
        /\ \A k \in i..(j - 1) : IsDigit(s[k])
        /\ (j = Len(s) + 1 \/ ~IsDigit(s[j]))
SkipNewlines(s, i) ==
    CHOOSE j \in i..(Len(s) + 1) :
        /\ \A k \in i..(j - 1) : IsNewline(s[k])
        /\ (j = Len(s) + 1 \/ ~IsNewline(s[j]))
SkipNonAscii(s, i) ==
    CHOOSE j \in i..(Len(s) + 1) :
        /\ \A k \in i..(j - 1) : IsNonAscii(s[k])
        /\ (j = Len(s) + 1 \/ ~IsNonAscii(s[j]))

\* r"Page\s*\d+\s*of\s*\d+" matched at position i: the position after the
\* match, or 0.  The classes \s, \d and the literals are disjoint, so the
\* greedy match is the only one.
MatchPageMarker(s, i) ==
    IF ~StartsWith(s, i, <<"P", "a", "g", "e">>) THEN 0
    ELSE LET d1 == SkipSpace(s, i + 4)
             e1 == SkipDigits(s, d1)
             o  == SkipSpace(s, e1)
             d2 == SkipSpace(s, o + 2)
             e2 == SkipDigits(s, d2)
         IN  IF e1 = d1 THEN 0
             ELSE IF ~StartsWith(s, o, <<"o", "f">>) THEN 0
             ELSE IF e2 = d2 THEN 0
             ELSE e2

\* re.sub(r"Page\s*\d+\s*of\s*\d+", "", s), from position i on
RECURSIVE RemovePageMarkers(_, _)
RemovePageMarkers(s, i) ==
    IF i > Len(s) THEN <<>>
    ELSE LET e == MatchPageMarker(s, i)
         IN  IF e = 0 THEN <<s[i]>> \o RemovePageMarkers(s, i + 1)
             ELSE RemovePageMarkers(s, e)

\* re.sub(r"\n{2,}", "\n", s), from position i on
RECURSIVE CollapseNewlines(_, _)
CollapseNewlines(s, i) ==
    IF i > Len(s) THEN <<>>
    ELSE IF IsNewline(s[i]) THEN <<"\n">> \o CollapseNewlines(s, SkipNewlines(s, i))
    ELSE <<s[i]>> \o CollapseNewlines(s, i + 1)

\* ^ and $ under re.MULTILINE
AtLineStart(s, i) == i = 1 \/ IsNewline(s[i - 1])
AtLineEnd(s, j) == j = Len(s) + 1 \/ IsNewline(s[j])

\* r"^\s*\d+\s*$" (MULTILINE) matched at position i: the position after the
\* match, or 0.  The trailing \s* is greedy and gives back until $ matches.
MatchNumberLine(s, i) ==
    IF ~AtLineStart(s, i) THEN 0
    ELSE LET d == SkipSpace(s, i)
             e == SkipDigits(s, d)
             w == SkipSpace(s, e)
             J == {j \in e..w : AtLineEnd(s, j)}
         IN  IF e = d \/ J = {} THEN 0 ELSE Max(J)

\* re.sub(r"^\s*\d+\s*$", "", s, flags=re.MULTILINE), from position i on
RECURSIVE RemoveNumberLines(_, _)
RemoveNumberLines(s, i) ==
    IF i > Len(s) THEN <<>>
    ELSE LET e == MatchNumberLine(s, i)
         IN  IF e = 0 THEN <<s[i]>> \o RemoveNumberLines(s, i + 1)
             ELSE RemoveNumberLines(s, e)

\* re.sub(r"[^\x00-\x7F]+", " ", s), from position i on
RECURSIVE ReplaceNonAscii(_, _)
ReplaceNonAscii(s, i) ==
    IF i > Len(s) THEN <<>>
    ELSE IF IsNonAscii(s[i]) THEN <<" ">> \o ReplaceNonAscii(s, SkipNonAscii(s, i))
    ELSE <<s[i]>> \o ReplaceNonAscii(s, i + 1)

\* re.sub(r"\s+", " ", s), from position i on
RECURSIVE CollapseWhitespace(_, _)
CollapseWhitespace(s, i) ==
    IF i > Len(s) THEN <<>>
    ELSE IF IsSpace(s[i]) THEN <<" ">> \o CollapseWhitespace(s, SkipSpace(s, i))
    ELSE <<s[i]>> \o CollapseWhitespace(s, i + 1)

\* str.strip()
Strip(s) ==
    LET keep == {k \in 1..Len(s) : ~IsSpace(s[k])}
    IN  IF keep = {} THEN <<>>
        ELSE SubSeq(s, CHOOSE a \in keep : \A b \in keep : a <= b, Max(keep))

clean_text(t) ==
    LET t1 == RemovePageMarkers(t, 1)
        t2 == CollapseNewlines(t1, 1)
        t3 == RemoveNumberLines(t2, 1)
        t4 == ReplaceNonAscii(t3, 1)
        t5 == CollapseWhitespace(t4, 1)
    IN  Strip(t5)

\* the Python slice s[a:b] for 0 <= a <= b
Slice(s, a, b) == SubSeq(s, a + 1, Min2(b, Len(s)))

\* len(range(0, n, step)) for step > 0
RangeLen(n, step) == (n + step - 1) \div step

\* a chunking that always emits a slice after the last full one
chunk_text_trailing(t, size) ==
    [k \in 1..((Len(t) \div size) + 1) |-> Slice(t, (k - 1) * size, k * size)]

chunk_text(t, size) ==
    [k \in 1..RangeLen(Len(t), size) |-> Slice(t, (k - 1) * size, k * size)]

(***************************************************************************)
(* Python values, as the json module reads and writes them.  A value is a  *)
(* record [t, v]: t its type, v its content.  None is the "null" value.    *)
(***************************************************************************)
Str(cs) == [t |-> "str", v |-> cs]
Num(n) == [t |-> "num", v |-> n]
Bool(b) == [t |-> "bool", v |-> b]
NullV == [t |-> "null", v |-> 0]
ListV(items) == [t |-> "list", v |-> items]
\* a dict is the sequence of its <<key, value>> pairs in insertion order
DictV(pairs) == [t |-> "dict", v |-> pairs]

DictKeys(d) == {d.v[k][1] : k \in 1..Len(d.v)}
DictGet(d, key) == d.v[CHOOSE k \in 1..Len(d.v) : d.v[k][1] = key][2]
\* d[key] = value on the pairs of a dict
DictPut(pairs, key, value) ==
    IF \E k \in 1..Len(pairs) : pairs[k][1] = key
    THEN [k \in 1..Len(pairs) |-> IF pairs[k][1] = key THEN <<key, value>> ELSE pairs[k]]
    ELSE Append(pairs, <<key, value>>)

\* the outcome of a call: a returned value, or a raised exception
Ok(value) == [exc |-> "none", val |-> value]
Raise(e) == [exc |-> e, val |-> NullV]

(***************************************************************************)
(* json.dump(obj, f, indent=2), with the default ensure_ascii=True         *)
(***************************************************************************)
DigitOf(d) == <<"0", "1", "2", "3", "4", "5", "6", "7", "8", "9">>[d + 1]
RECURSIVE Decimal(_)
Decimal(n) == IF n < 10 THEN <<DigitOf(n)>> ELSE Decimal(n \div 10) \o <<DigitOf(n % 10)>>

\* a str encoded with every character written as it is
EncodeCharRaw(c) == <<c>>

\* json.encoder.ESCAPE_ASCII, one character
EncodeChar(c) ==
    IF c = "\"" THEN <<"\\", "\"">>
    ELSE IF c = "\\" THEN <<"\\", "\\">>
    ELSE IF c = "\n" THEN <<"\\", "n">>
    ELSE IF c = "\r" THEN <<"\\", "r">>
    ELSE IF c = "\t" THEN <<"\\", "t">>
    ELSE IF c = "\f" THEN <<"\\", "f">>
    ELSE IF c = NonAscii THEN <<"\\", "u", "0", "0", "e", "9">>
    ELSE <<c>>

RECURSIVE EncodeChars(_)
EncodeChars(cs) == IF cs = <<>> THEN <<>> ELSE EncodeChar(Head(cs)) \o EncodeChars(Tail(cs))

EncodeString(cs) == <<"\"">> \o EncodeChars(cs) \o <<"\"">>

Indent(level) == [k \in 1..(2 * level) |-> " "]

RECURSIVE json_dumps(_, _)
RECURSIVE DumpItems(_, _, _)
RECURSIVE DumpPairs(_, _, _)
\* the items of a non-empty list from the k-th on, each on its own line
DumpItems(items, k, level) ==
    <<"\n">> \o Indent(level) \o json_dumps(items[k], level)
        \o (IF k < Len(items) THEN <<",">> \o DumpItems(items, k + 1, level) ELSE <<>>)
DumpPairs(pairs, k, level) ==
    <<"\n">> \o Indent(level) \o EncodeString(pairs[k][1]) \o <<":", " ">>
        \o json_dumps(pairs[k][2], level)
        \o (IF k < Len(pairs) THEN <<",">> \o DumpPairs(pairs, k + 1, level) ELSE <<>>)
json_dumps(value, level) ==
    IF value.t = "str" THEN EncodeString(value.v)
    ELSE IF value.t = "num" THEN Decimal(value.v)
    ELSE IF value.t = "null" THEN <<"n", "u", "l", "l">>
    ELSE IF value.t = "bool"
        THEN (IF value.v THEN <<"t", "r", "u", "e">> ELSE <<"f", "a", "l", "s", "e">>)
    ELSE IF value.t = "list"
        THEN (IF value.v = <<>> THEN <<"[", "]">>
              ELSE <<"[">> \o DumpItems(value.v, 1, level + 1)
                       \o <<"\n">> \o Indent(level) \o <<"]">>)
    ELSE (IF value.v = <<>> THEN <<"{", "}">>
          ELSE <<"{">> \o DumpPairs(value.v, 1, level + 1)
                   \o <<"\n">> \o Indent(level) \o <<"}">>)

(***************************************************************************)
(* json.load / json.loads: the decoder of json.decoder and json.scanner.   *)
(* Numbers are the non-negative integers; the inputs hold no sign,         *)
(* fraction or exponent, and no NaN or Infinity.  A parse gives            *)
(* [ok, val, end, exc]: end is the position after the value; with          *)
(* ok = FALSE, exc is the exception raised: JSONDecodeError, or the         *)
(* ValueError of int() on more digits than sys.get_int_max_str_digits().   *)
(***************************************************************************)
ParseFail == [ok |-> FALSE, val |-> NullV, end |-> 0, exc |-> "JSONDecodeError"]
ParseRaise(e) == [ok |-> FALSE, val |-> NullV, end |-> 0, exc |-> e]
Parsed(value, e) == [ok |-> TRUE, val |-> value, end |-> e, exc |-> "none"]

\* json.decoder.WHITESPACE
JsonSpaceChars == {" ", "\t", "\n", "\r"}
JsonSkip(s, i) ==
    CHOOSE j \in i..(Len(s) + 1) :
        /\ \A k \in i..(j - 1) : s[k] \in JsonSpaceChars
        /\ (j = Len(s) + 1 \/ s[j] \notin JsonSpaceChars)

HexChars == DigitChars \cup {"a", "b", "c", "d", "e", "f", "A", "B", "C", "D", "E", "F"}
\* the character of a \uXXXX escape; OtherCodePoint stands for every code
\* point but U+00E9
OtherCodePoint == "U+XXXX"
CodePoint(hex) ==
    IF hex \in {<<"0", "0", "e", "9">>, <<"0", "0", "E", "9">>} THEN NonAscii
    ELSE OtherCodePoint

\* json.decoder.BACKSLASH
IsSimpleEscape(c) == c \in {"\"", "\\", "/", "b", "f", "n", "r", "t"}
Unescape(c) ==
    IF c = "n" THEN "\n"
    ELSE IF c = "r" THEN "\r"
    ELSE IF c = "t" THEN "\t"
    ELSE IF c = "f" THEN "\f"
    ELSE IF c = "b" THEN "\\b"
    ELSE c

\* characters below 0x20, which a strict decoder refuses inside a string
ControlChars == {"\n", "\t", "\r", "\f"}

\* json.decoder.py_scanstring: i is the position after the opening quote
RECURSIVE ScanString(_, _, _)
ScanString(s, i, acc) ==
    IF i > Len(s) THEN ParseFail
    ELSE IF s[i] = "\"" THEN Parsed(Str(acc), i + 1)
    ELSE IF s[i] = "\\"
        THEN (IF i + 1 > Len(s) THEN ParseFail
              ELSE IF IsSimpleEscape(s[i + 1])
                  THEN ScanString(s, i + 2, Append(acc, Unescape(s[i + 1])))
              ELSE IF s[i + 1] = "u"
                      /\ i + 5 <= Len(s)
                      /\ \A k \in (i + 2)..(i + 5) : s[k] \in HexChars
                  THEN ScanString(s, i + 6, Append(acc, CodePoint(SubSeq(s, i + 2, i + 5))))
              ELSE ParseFail)
    ELSE IF s[i] \in ControlChars THEN ParseFail
    ELSE ScanString(s, i + 1, Append(acc, s[i]))

RECURSIVE DecimalValue(_)
DecimalValue(ds) ==
    IF ds = <<>> THEN 0
    ELSE 10 * DecimalValue(SubSeq(ds, 1, Len(ds) - 1))
         + (CHOOSE d \in 0..9 : DigitOf(d) = ds[Len(ds)])

\* json.scanner.NUMBER_RE, integer part: 0 | [1-9]\d*, and parse_int = int
\* applied to the match as soon as it is made
ScanNumber(s, i) ==
    LET e == IF s[i] = "0" THEN i + 1 ELSE SkipDigits(s, i)
    IN  IF e - i > IntMaxStrDigits THEN ParseRaise("ValueError")
        ELSE Parsed(Num(DecimalValue(SubSeq(s, i, e - 1))), e)

RECURSIVE ParseValue(_, _)
RECURSIVE ParseArray(_, _, _)
RECURSIVE ParseObject(_, _, _)
\* json.decoder.JSONArray after "[" and white space, the list being non-empty
ParseArray(s, i, acc) ==
    LET item == ParseValue(s, i)
        n == JsonSkip(s, item.end)
    IN  IF ~item.ok THEN item
        ELSE IF n > Len(s) THEN ParseFail
        ELSE IF s[n] = "]" THEN Parsed(ListV(Append(acc, item.val)), n + 1)
        ELSE IF s[n] = "," THEN ParseArray(s, JsonSkip(s, n + 1), Append(acc, item.val))
        ELSE ParseFail
\* json.decoder.JSONObject after "{" and white space, the dict being non-empty
ParseObject(s, i, acc) ==
    IF i > Len(s) \/ s[i] # "\"" THEN ParseFail
    ELSE LET key == ScanString(s, i + 1, <<>>)
             colon == JsonSkip(s, key.end)
             item == ParseValue(s, JsonSkip(s, colon + 1))
             n == JsonSkip(s, item.end)
         IN  IF ~key.ok THEN ParseFail
             ELSE IF colon > Len(s) \/ s[colon] # ":" THEN ParseFail
             ELSE IF ~item.ok THEN item
             ELSE IF n > Len(s) THEN ParseFail
             ELSE IF s[n] = "}" THEN Parsed(DictV(DictPut(acc, key.val.v, item.val)), n + 1)
             ELSE IF s[n] = ","
                 THEN ParseObject(s, JsonSkip(s, n + 1), DictPut(acc, key.val.v, item.val))
             ELSE ParseFail
\* json.scanner.py_make_scanner, _scan_once
ParseValue(s, i) ==
    IF i > Len(s) THEN ParseFail
    ELSE IF s[i] = "\"" THEN ScanString(s, i + 1, <<>>)
    ELSE IF s[i] = "{"
        THEN (LET j == JsonSkip(s, i + 1)
              IN  IF j <= Len(s) /\ s[j] = "}" THEN Parsed(DictV(<<>>), j + 1)
                  ELSE ParseObject(s, j, <<>>))
    ELSE IF s[i] = "["
        THEN (LET j == JsonSkip(s, i + 1)
              IN  IF j <= Len(s) /\ s[j] = "]" THEN Parsed(ListV(<<>>), j + 1)
                  ELSE ParseArray(s, j, <<>>))
    ELSE IF StartsWith(s, i, <<"n", "u", "l", "l">>) THEN Parsed(NullV, i + 4)
    ELSE IF StartsWith(s, i, <<"t", "r", "u", "e">>) THEN Parsed(Bool(TRUE), i + 4)
    ELSE IF StartsWith(s, i, <<"f", "a", "l", "s", "e">>) THEN Parsed(Bool(FALSE), i + 5)
    ELSE IF IsDigit(s[i]) THEN ScanNumber(s, i)
    ELSE ParseFail

\* JSONDecoder.decode: one value, white space around it, nothing after it
json_loads(s) ==
    LET r == ParseValue(s, JsonSkip(s, 1))
    IN  IF ~r.ok THEN r
        ELSE IF JsonSkip(s, r.end) # Len(s) + 1 THEN ParseFail
        ELSE r

(***************************************************************************)
(* The chunk-summary cache: agent.py, load_existing_chunk_summaries, and   *)
(* json_exporter.py, export_chunk_summaries.  A file is                    *)
(* [exists, content], content being its text.                              *)
(***************************************************************************)
NoFile == [exists |-> FALSE, content |-> <<>>]
FileOf(content) == [exists |-> TRUE, content |-> content]

\* the field name "chunk_summaries"
CHUNK_SUMMARIES ==
    <<"c", "h", "u", "n", "k", "_", "s", "u", "m", "m", "a", "r", "i", "e", "s">>

IsSubstring(sub, s) == \E i \in 1..(Len(s) + 1) : StartsWith(s, i, sub)

\* key in data, for a str key
PyContains(data, key) ==
    IF data.t = "dict" THEN Ok(Bool(key \in DictKeys(data)))
    ELSE IF data.t = "list"
        THEN Ok(Bool(\E k \in 1..Len(data.v) : data.v[k].t = "str" /\ data.v[k].v = key))
    ELSE IF data.t = "str" THEN Ok(Bool(IsSubstring(key, data.v)))
    ELSE Raise("TypeError")

\* data[key], for a str key
PyGetItem(data, key) ==
    IF data.t = "dict"
    THEN (IF key \in DictKeys(data) THEN Ok(DictGet(data, key)) ELSE Raise("KeyError"))
    ELSE Raise("TypeError")

\* len(value)
PyLen(value) ==
    IF value.t \in {"str", "list", "dict"} THEN Ok(Num(Len(value.v)))
    ELSE Raise("TypeError")

\* the body of the try statement, lines 85 to 89: what it returns (None when
\* it falls through to line 92) or raises
LoadTryBody(f) ==
    LET p == json_loads(f.content)
        has == PyContains(p.val, CHUNK_SUMMARIES)
        item == PyGetItem(p.val, CHUNK_SUMMARIES)
        n == PyLen(item.val)
    IN  IF ~p.ok THEN Raise(p.exc)
        ELSE IF has.exc # "none" THEN has
        ELSE IF ~has.val.v THEN Ok(NullV)
        ELSE IF item.exc # "none" THEN item
        ELSE IF n.exc # "none" THEN n
        ELSE Ok(item.val)

\* an except clause that names json.JSONDecodeError only
ExceptDecodeError(e) == e = "JSONDecodeError"

\* except Exception: every exception the body raises is an Exception
ExceptException(e) == e \in {"JSONDecodeError", "ValueError", "TypeError", "KeyError"}

load_existing_chunk_summaries(f) ==
    IF ~f.exists THEN Ok(NullV)
    ELSE LET r == LoadTryBody(f)
         IN  IF r.exc # "none" /\ ExceptException(r.exc) THEN Ok(NullV) ELSE r

\* an export that names its field otherwise than the load looks for
export_chunk_summaries_renamed(summary_list) ==
    FileOf(json_dumps(DictV(<< <<<<"s", "u", "m", "m", "a", "r", "i", "e", "s">>,
                                 summary_list>> >>), 0))

\* the file export_chunk_summaries(summaries, path) leaves at path, summary_list
\* being its summaries
export_chunk_summaries(summary_list) ==
    FileOf(json_dumps(DictV(<< <<CHUNK_SUMMARIES, summary_list>> >>), 0))

(***************************************************************************)
(* src/src/section_extractor.py and src/src/rule_checker.py: what each     *)
(* makes of the text of the model's response                               *)
(***************************************************************************)
\* the grave accent U+0060, three of which make a code fence
Backtick == "U+0060"
FENCE == <<Backtick, Backtick, Backtick>>
JSON_TAG == <<"j", "s", "o", "n">>

\* The pattern of re.search (fence, optional json, \s*, group, \s*, fence; with
\* re.DOTALL) matched at position i, the group being {.*?} or, with "[" among
\* the openers, \[.*?\]: <<first, last>> positions of the group, or <<0, 0>>.
\* The lazy .*? stops at the first closing bracket that white space and a
\* fence follow.
FenceMatchAt(s, i, openers) ==
    IF ~StartsWith(s, i, FENCE) THEN <<0, 0>>
    ELSE LET a == IF StartsWith(s, i + 3, JSON_TAG) THEN i + 7 ELSE i + 3
             b == SkipSpace(s, a)
             closer == IF b <= Len(s) /\ s[b] = "[" THEN "]" ELSE "}"
             J == {j \in (b + 1)..Len(s) :
                      s[j] = closer /\ StartsWith(s, SkipSpace(s, j + 1), FENCE)}
         IN  IF b > Len(s) \/ s[b] \notin openers \/ J = {} THEN <<0, 0>>
             ELSE <<b, CHOOSE j \in J : \A k \in J : j <= k>>

\* response_text after the re.search and the if json_match: group 1 of the
\* leftmost match, or the response as it is
FenceGroup(s, openers) ==
    LET I == {i \in 1..Len(s) : FenceMatchAt(s, i, openers)[1] # 0}
        first == CHOOSE i \in I : \A k \in I : i <= k
        m == FenceMatchAt(s, first, openers)
    IN  IF I = {} THEN s ELSE SubSeq(s, m[1], m[2])

DEFINITIONS ==
    <<"d", "e", "f", "i", "n", "i", "t", "i", "o", "n", "s">>
OBLIGATIONS ==
    <<"o", "b", "l", "i", "g", "a", "t", "i", "o", "n", "s">>
RESPONSIBILITIES ==
    <<"r", "e", "s", "p", "o", "n", "s", "i", "b", "i", "l", "i", "t", "i",
      "e", "s">>
ELIGIBILITY ==
    <<"e", "l", "i", "g", "i", "b", "i", "l", "i", "t", "y">>
PAYMENTS ==
    <<"p", "a", "y", "m", "e", "n", "t", "s">>
PENALTIES ==
    <<"p", "e", "n", "a", "l", "t", "i", "e", "s">>
RECORD_KEEPING ==
    <<"r", "e", "c", "o", "r", "d", "_", "k", "e", "e", "p", "i", "n", "g">>
\* the key the prompt asks for in the place of record_keeping (line 44)
RECORD_KEEPIN ==
    <<"r", "e", "c", "o", "r", "d", "_", "k", "e", "e", "p", "i", "n">>

SECTION_KEYS ==
    <<DEFINITIONS, OBLIGATIONS, RESPONSIBILITIES, ELIGIBILITY, PAYMENTS, PENALTIES,
      RECORD_KEEPING>>
PROMPT_KEYS ==
    <<DEFINITIONS, OBLIGATIONS, RESPONSIBILITIES, ELIGIBILITY, PAYMENTS, PENALTIES,
      RECORD_KEEPIN>>

\* the dict returned by the except clause, lines 70 to 78
FallbackSections ==
    DictV([k \in 1..Len(SECTION_KEYS) |-> <<SECTION_KEYS[k], Str(<<>>)>>])

\* extract_sections from line 55 on, response_text being response.text
extract_sections(response_text) ==
    LET p == json_loads(FenceGroup(response_text, {"{"}))
    IN  IF p.ok THEN Ok(p.val)
        ELSE IF p.exc = "JSONDecodeError" THEN Ok(FallbackSections)
        ELSE Raise(p.exc)

LEGAL_DOCUMENT_RULES ==
    <<
      <<"A", "c", "t", " ", "m", "u", "s", "t", " ", "d", "e", "f", "i",
        "n", "e", " ", "k", "e", "y", " ", "t", "e", "r", "m", "s">>,
      <<"A", "c", "t", " ", "m", "u", "s", "t", " ", "s", "p", "e", "c",
        "i", "f", "y", " ", "e", "l", "i", "g", "i", "b", "i", "l", "i",
        "t", "y", " ", "c", "r", "i", "t", "e", "r", "i", "a">>,
      <<"A", "c", "t", " ", "m", "u", "s", "t", " ", "s", "p", "e", "c",
        "i", "f", "y", " ", "w", "h", "a", "t", " ", "t", "h", "e", " ",
        "a", "u", "t", "h", "o", "r", "i", "t", "y", " ", "(", "g", "o",
        "v", "e", "r", "n", "m", "e", "n", "t", ")", " ", "m", "u", "s",
        "t", " ", "d", "o">>,
      <<"A", "c", "t", " ", "m", "u", "s", "t", " ", "l", "i", "s", "t",
        " ", "p", "e", "n", "a", "l", "t", "i", "e", "s", " ", "o", "r",
        " ", "e", "n", "f", "o", "r", "c", "e", "m", "e", "n", "t", " ",
        "m", "e", "t", "h", "o", "d", "s">>,
      <<"A", "c", "t", " ", "m", "u", "s", "t", " ", "e", "x", "p", "l",
        "a", "i", "n", " ", "h", "o", "w", " ", "t", "o", " ", "c", "a",
        "l", "c", "u", "l", "a", "t", "e", " ", "p", "a", "y", "m", "e",
        "n", "t", "s">>,
      <<"A", "c", "t", " ", "m", "u", "s", "t", " ", "r", "e", "q", "u",
        "i", "r", "e", " ", "r", "e", "c", "o", "r", "d", "s", " ", "o",
        "r", " ", "r", "e", "p", "o", "r", "t", "i", "n", "g">>
    >>

RULE == <<"r", "u", "l", "e">>
STATUS == <<"s", "t", "a", "t", "u", "s">>
EVIDENCE == <<"e", "v", "i", "d", "e", "n", "c", "e">>
CONFIDENCE == <<"c", "o", "n", "f", "i", "d", "e", "n", "c", "e">>
FAIL == <<"f", "a", "i", "l">>
PASS == <<"p", "a", "s", "s">>
COULD_NOT_PROCESS ==
    <<"C", "o", "u", "l", "d", " ", "n", "o", "t", " ", "p", "r", "o", "c",
      "e", "s", "s">>

\* _create_default_rule_checks
create_default_rule_checks ==
    ListV([k \in 1..Len(LEGAL_DOCUMENT_RULES) |->
        DictV(<< <<RULE, Str(LEGAL_DOCUMENT_RULES[k])>>,
                 <<STATUS, Str(FAIL)>>,
                 <<EVIDENCE, Str(COULD_NOT_PROCESS)>>,
                 <<CONFIDENCE, Num(0)>> >>)])

\* apply_rule_checks from line 78 on, response_text being response.text
apply_rule_checks(response_text) ==
    LET p == json_loads(FenceGroup(response_text, {"{", "["}))
    IN  IF p.ok /\ p.val.t = "list" THEN Ok(p.val)
        ELSE IF p.ok \/ p.exc = "JSONDecodeError" THEN Ok(create_default_rule_checks)
        ELSE Raise(p.exc)

(***************************************************************************)
(* src/src/summarizer.py, export_json of src/src/json_exporter.py, and     *)
(* process_legislation of agent.py                                         *)
(***************************************************************************)
\* sep.join(parts) for a sequence of strs
RECURSIVE JoinSeq(_, _)
JoinSeq(sep, parts) ==
    IF parts = <<>> THEN <<>>
    ELSE IF Len(parts) = 1 THEN parts[1]
    ELSE parts[1] \o sep \o JoinSeq(sep, Tail(parts))

IsStrList(value) ==
    value.t = "list" /\ \A k \in 1..Len(value.v) : value.v[k].t = "str"

\* sep.join(value): a list is joined item by item, a str character by
\* character, a dict key by key
PyJoin(sep, value) ==
    IF value.t = "list"
    THEN (IF IsStrList(value)
          THEN Ok(Str(JoinSeq(sep, [k \in 1..Len(value.v) |-> value.v[k].v])))
          ELSE Raise("TypeError"))
    ELSE IF value.t = "str"
        THEN Ok(Str(JoinSeq(sep, [k \in 1..Len(value.v) |-> <<value.v[k]>>])))
    ELSE IF value.t = "dict"
        THEN Ok(Str(JoinSeq(sep, [k \in 1..Len(value.v) |-> value.v[k][1]])))
    ELSE Raise("TypeError")

\* response.text if response.text else ""
TextOrEmpty(response_text) == IF response_text = <<>> THEN <<>> ELSE response_text

\* a summarize_chunks that puts each new summary first
PrependSummary(acc, summary) == <<summary>> \o acc

\* summaries.append(summary)
AppendSummary(acc, summary) == Append(acc, summary)

\* combine_summaries up to the call of the model: the len() of the log line
\* and the join; the text joined, or the exception
CombinedText(value) ==
    IF PyLen(value).exc # "none" THEN PyLen(value)
    ELSE PyJoin(<<"\n", "\n">>, value)

\* a cache branch that never takes the cached summaries
IsCacheMissAlways(value) == TRUE

\* if chunk_summaries is None
IsCacheMiss(value) == value = NullV

SUMMARY == <<"s", "u", "m", "m", "a", "r", "y">>
SECTIONS == <<"s", "e", "c", "t", "i", "o", "n", "s">>
RULE_CHECKS == <<"r", "u", "l", "e", "_", "c", "h", "e", "c", "k", "s">>

\* the file export_json leaves at path
export_json(summary, sects, checks) ==
    FileOf(json_dumps(DictV(<< <<SUMMARY, Str(summary)>>,
                               <<SECTIONS, sects>>,
                               <<RULE_CHECKS, checks>> >>), 0))

\* the dict process_legislation returns, lines 132 to 137
ResultsOf(summary, sects, checks, chunk_sums) ==
    DictV(<< <<SUMMARY, Str(summary)>>,
             <<SECTIONS, sects>>,
             <<RULE_CHECKS, checks>>,
             <<CHUNK_SUMMARIES, chunk_sums>> >>)

\* one call of model.generate_content: which method made it, the text put
\* in its prompt, and the response text, or that the service failed
Call(kind, arg, ret) == [kind |-> kind, arg |-> arg, ok |-> TRUE, ret |-> ret]
FailedCall(kind, arg) == [kind |-> kind, arg |-> arg, ok |-> FALSE, ret |-> <<>>]

(***************************************************************************)
(* Inputs                                                                  *)
(***************************************************************************)
RECURSIVE SeqsUpTo(_, _)
SeqsUpTo(S, n) ==
    IF n = 0 THEN {<<>>}
    ELSE LET T == SeqsUpTo(S, n - 1)
         IN  T \cup {t \o <<c>> : t \in T, c \in S}

\* the pieces the inputs of clean_text are built from
Fragments ==
    { <<"P", "a", "g", "e">>, <<"o", "f">>, <<"1">>, <<" ">>, <<"\n">>,
      <<NonAscii>>, <<"x">> }

RECURSIVE FragmentTexts(_)
FragmentTexts(n) ==
    IF n = 0 THEN {<<>>}
    ELSE LET T == FragmentTexts(n - 1)
         IN  T \cup {t \o f : t \in T, f \in Fragments}

RECURSIVE Concat(_)
Concat(ss) == IF ss = <<>> THEN <<>> ELSE Head(ss) \o Concat(Tail(ss))

\* the characters and texts of a chunk summary
SummaryChars == {"a", "\"", "\\", "\n", NonAscii}
SummaryTexts ==
    SeqsUpTo(SummaryChars, 1)
        \cup { <<"a", "\"", "b">>, <<"\\", "n">>, <<"\\", "\"">>, <<"[", "]">> }
SummaryLists == SeqsUpTo({Str(t) : t \in SummaryTexts}, MaxSummaries)

\* sample JSON documents: scalars, lists of scalars, and objects with one
\* field, named chunk_summaries or not
OTHER_KEY == <<"o", "t", "h", "e", "r">>
SampleScalars == {Num(1), Str(<<"a">>), Str(CHUNK_SUMMARIES), NullV, Bool(TRUE)}
SampleLists == {ListV(items) : items \in SeqsUpTo(SampleScalars, MaxItems)}
SampleFields == SampleScalars \cup SampleLists \cup {DictV(<<>>)}
SampleDicts ==
    {DictV(<<>>)} \cup {DictV(<< <<k, x>> >>) : k \in {CHUNK_SUMMARIES, OTHER_KEY}, x \in SampleFields}
SampleValues == SampleScalars \cup SampleLists \cup SampleDicts

\* an integer literal one digit longer than int() converts
LongInteger == [k \in 1..(IntMaxStrDigits + 1) |-> "1"]

Prefixes(s) == {SubSeq(s, 1, n) : n \in 0..Len(s)}
PlainText == <<"h", "e", "l", "l", "o">>

\* what a cache file can hold: nothing, a JSON document, a truncated one, or
\* plain text
SampleFiles ==
    {NoFile}
        \cup {FileOf(c) : c \in UNION {Prefixes(json_dumps(x, 0)) : x \in SampleValues}}
        \cup {FileOf(PlainText), FileOf(LongInteger), FileOf(<<"[">> \o LongInteger)}

CacheIdle ==
    /\ cache_file = NoFile
    /\ saved = <<>>
    /\ loaded = Ok(NullV)
    /\ cstep = "off"

SectIdle ==
    /\ response = <<>>
    /\ sections_out = Ok(NullV)
    /\ checks_out = Ok(NullV)
    /\ sstep = "off"

\* a response that follows the prompt, and one with the seven section keys
SECTION_TEXT == <<"s">>
PromptSections ==
    DictV([k \in 1..Len(PROMPT_KEYS) |-> <<PROMPT_KEYS[k], Str(SECTION_TEXT)>>])
FullSections ==
    DictV([k \in 1..Len(SECTION_KEYS) |-> <<SECTION_KEYS[k], Str(SECTION_TEXT)>>])

\* a document inside a fence, as the model writes it, with and without the
\* json tag and with text around it
Fenced(doc) == FENCE \o JSON_TAG \o <<"\n">> \o doc \o <<"\n">> \o FENCE
FencedBare(doc) == FENCE \o doc \o FENCE
FencedInText(doc) == <<"O", "K", ":", " ">> \o Fenced(doc) \o <<"\n", "b", "y", "e">>

\* the texts of the responses given to extract_sections: JSON documents,
\* whole or truncated, plain text and the empty response, bare or fenced
SectionDocuments ==
    UNION {Prefixes(json_dumps(x, 0)) : x \in SampleValues \cup {PromptSections, FullSections}}
        \cup {PlainText, <<"[">> \o LongInteger}
SectionResponses ==
    SectionDocuments
        \cup {Fenced(d) : d \in SectionDocuments}
        \cup {FencedBare(d) : d \in SectionDocuments}
        \cup {FencedInText(d) : d \in SectionDocuments}

\* the documents of the pipeline: one that cannot be read, an empty one, and
\* two whose cleaned text makes one and several chunks
Pdfs ==
    {[readable |-> FALSE, text |-> <<>>]}
        \cup {[readable |-> TRUE, text |-> t] :
                t \in {<<>>, <<"a", "b">>, <<"a", "b", "\n", "\n", "c", "d", "e">>}}

\* the response texts of the model, per call
ChunkResponses == {<<>>, <<"x">>}
CombineResponses == {<<>>, <<"S">>}
SectionReplies ==
    {Fenced(json_dumps(PromptSections, 0)), <<"[", "]">>, PlainText, LongInteger}
RuleRecord ==
    DictV(<< <<RULE, Str(LEGAL_DOCUMENT_RULES[1])>>, <<STATUS, Str(PASS)>>,
             <<EVIDENCE, Str(<<"e">>)>>, <<CONFIDENCE, Num(9)>> >>)
RuleReplies ==
    {Fenced(json_dumps(ListV(<<RuleRecord>>), 0)), <<"{", "}">>, <<"[">> \o LongInteger}

\* the texts of the responses given to apply_rule_checks: lists of rule
\* records and of other values, values that are no list, whole or
\* truncated, plain text and the empty response, bare or fenced
RuleDocuments ==
    UNION {Prefixes(json_dumps(x, 0)) :
              x \in SampleValues
                    \cup {ListV(<<RuleRecord>>), ListV(<<RuleRecord, Num(1)>>), RuleRecord}}
        \cup {PlainText, LongInteger, <<"[">> \o LongInteger}
RuleResponses ==
    RuleDocuments
        \cup {Fenced(d) : d \in RuleDocuments}
        \cup {FencedBare(d) : d \in RuleDocuments}
        \cup {FencedInText(d) : d \in RuleDocuments}

\* what the cache file holds before the first run
CacheFiles ==
    {NoFile, FileOf(PlainText)}
        \cup {export_chunk_summaries(ListV(l)) :
                l \in {<<>>, <<Str(<<"a">>), Str(<<"b">>)>>}}
        \cup {FileOf(json_dumps(DictV(<< <<CHUNK_SUMMARIES, x>> >>), 0)) :
                x \in {ListV(<<Num(1)>>), Str(<<"a", "b">>), NullV,
                       DictV(<< <<OTHER_KEY, Num(1)>> >>)}}
        \cup {FileOf(json_dumps(DictV(<< <<OTHER_KEY, Num(1)>> >>), 0)),
              FileOf(<<"{", "\"", "c", "h">>), FileOf(LongInteger)}

\* the locals of a run that has not started
RunIdle ==
    /\ raw_text = <<>>
    /\ cleaned_text = <<>>
    /\ doc_chunks = <<>>
    /\ summaries = <<>>
    /\ chunk_summaries = NullV
    /\ combine_arg = NullV
    /\ final_summary = <<>>
    /\ sections = NullV
    /\ rule_checks = NullV
    /\ results = NullV
    /\ abort_exc = "none"
    /\ calls = <<>>
    /\ cache_writes = 0
    /\ output_writes = 0

PipeIdle ==
    /\ pc = "off"
    /\ last_written = NullV
    /\ pdf = [readable |-> FALSE, text |-> <<>>]
    /\ output_file = NoFile
    /\ start_cache = NoFile
    /\ RunIdle

TextIdle ==
    /\ text = <<>>
    /\ chunk_size = 1
    /\ cleaned = <<>>
    /\ recleaned = <<>>
    /\ chunks = <<>>
    /\ tstep = "off"

(***************************************************************************)
(* chunk_text on its own                                                   *)
(***************************************************************************)
InitChunk ==
    /\ text \in SeqsUpTo({"a", "b"}, MaxTextLen)
    /\ chunk_size \in 1..MaxChunkSize
    /\ cleaned = <<>>
    /\ recleaned = <<>>
    /\ chunks = <<>>
    /\ tstep = "input"
    /\ CacheIdle
    /\ SectIdle
    /\ PipeIdle

ChunkText ==
    /\ tstep = "input"
    /\ chunks' = chunk_text(text, chunk_size)
    /\ tstep' = "chunked"
    /\ UNCHANGED <<text, chunk_size, cleaned, recleaned, outsideText>>

NextChunk == ChunkText

SpecChunk == InitChunk /\ [][NextChunk]_vars

(***************************************************************************)
(* clean_text on its own                                                   *)
(***************************************************************************)
InitClean ==
    /\ text \in FragmentTexts(MaxFrags)
    /\ chunk_size = 1
    /\ cleaned = <<>>
    /\ recleaned = <<>>
    /\ chunks = <<>>
    /\ tstep = "input"
    /\ CacheIdle
    /\ SectIdle
    /\ PipeIdle

CleanText ==
    /\ tstep = "input"
    /\ cleaned' = clean_text(text)
    /\ tstep' = "cleaned"
    /\ UNCHANGED <<text, chunk_size, recleaned, chunks, outsideText>>

CleanAgain ==
    /\ tstep = "cleaned"
    /\ recleaned' = clean_text(cleaned)
    /\ tstep' = "recleaned"
    /\ UNCHANGED <<text, chunk_size, cleaned, chunks, outsideText>>

NextClean == CleanText \/ CleanAgain

SpecClean == InitClean /\ [][NextClean]_vars

(***************************************************************************)
(* The cache on its own: a load of whatever the file holds, or an export   *)
(* followed by a load                                                      *)
(***************************************************************************)
InitCache ==
    /\ cache_file \in SampleFiles
    /\ saved = <<>>
    /\ loaded = Ok(NullV)
    /\ cstep = "initial"
    /\ TextIdle
    /\ SectIdle
    /\ PipeIdle

LoadInitial ==
    /\ cstep = "initial"
    /\ loaded' = load_existing_chunk_summaries(cache_file)
    /\ cstep' = "loaded_initial"
    /\ UNCHANGED <<cache_file, saved, outsideCache>>

ExportSummaries ==
    /\ cstep = "initial"
    /\ \E summary_list \in SummaryLists :
        /\ cache_file' = export_chunk_summaries(ListV(summary_list))
        /\ saved' = summary_list
    /\ cstep' = "saved"
    /\ UNCHANGED <<loaded, outsideCache>>

LoadSaved ==
    /\ cstep = "saved"
    /\ loaded' = load_existing_chunk_summaries(cache_file)
    /\ cstep' = "loaded_saved"
    /\ UNCHANGED <<cache_file, saved, outsideCache>>

NextCache == LoadInitial \/ ExportSummaries \/ LoadSaved

SpecCache == InitCache /\ [][NextCache]_vars

(***************************************************************************)
(* extract_sections on its own                                             *)
(***************************************************************************)
InitSections ==
    /\ response \in SectionResponses
    /\ sections_out = Ok(NullV)
    /\ checks_out = Ok(NullV)
    /\ sstep = "response"
    /\ TextIdle
    /\ CacheIdle
    /\ PipeIdle

ExtractSections ==
    /\ sstep = "response"
    /\ sections_out' = extract_sections(response)
    /\ sstep' = "extracted"
    /\ UNCHANGED <<response, checks_out, outsideSect>>

NextSections == ExtractSections

SpecSections == InitSections /\ [][NextSections]_vars

(***************************************************************************)
(* apply_rule_checks on its own                                            *)
(***************************************************************************)
InitRules ==
    /\ response \in RuleResponses
    /\ sections_out = Ok(NullV)
    /\ checks_out = Ok(NullV)
    /\ sstep = "rule_response"
    /\ TextIdle
    /\ CacheIdle
    /\ PipeIdle

ApplyRuleChecks ==
    /\ sstep = "rule_response"
    /\ checks_out' = apply_rule_checks(response)
    /\ sstep' = "checked"
    /\ UNCHANGED <<response, sections_out, outsideSect>>

NextRules == ApplyRuleChecks

SpecRules == InitRules /\ [][NextRules]_vars

(***************************************************************************)
(* process_legislation, one run after the other on the same cache file     *)
(***************************************************************************)
Init ==
    /\ cache_file \in CacheFiles
    /\ pc = "idle"
    /\ pdf = [readable |-> FALSE, text |-> <<>>]
    /\ output_file = NoFile
    /\ start_cache = cache_file
    /\ last_written = NullV
    /\ RunIdle
    /\ TextIdle
    /\ saved = <<>>
    /\ loaded = Ok(NullV)
    /\ cstep = "off"
    /\ SectIdle

\* a call of process_legislation(pdf_path)
StartRun ==
    /\ pc \in {"idle", "done", "aborted"}
    /\ \E d \in Pdfs : pdf' = d
    /\ pc' = "extract"
    /\ start_cache' = cache_file
    /\ raw_text' = <<>>
    /\ cleaned_text' = <<>>
    /\ doc_chunks' = <<>>
    /\ summaries' = <<>>
    /\ chunk_summaries' = NullV
    /\ combine_arg' = NullV
    /\ final_summary' = <<>>
    /\ sections' = NullV
    /\ rule_checks' = NullV
    /\ results' = NullV
    /\ abort_exc' = "none"
    /\ calls' = <<>>
    /\ cache_writes' = 0
    /\ output_writes' = 0
    /\ UNCHANGED <<cache_file, output_file, outsidePipe, last_written>>

\* step 1 on a document that cannot be read: fitz.open raises
ExtractFails ==
    /\ pc = "extract"
    /\ ~pdf.readable
    /\ pc' = "aborted"
    /\ abort_exc' = "DocumentReadError"
    /\ UNCHANGED <<pdf, raw_text, cleaned_text, doc_chunks, summaries, chunk_summaries,
                   combine_arg, final_summary, sections, rule_checks, results, calls,
                   output_file, start_cache, cache_writes, output_writes, cache_file,
                   outsidePipe, last_written>>

\* steps 1 to 3 and the cache branch of step 4, lines 102 to 118; with no
\* chunk to summarize, summarize_chunks returns [] at once and line 116
\* exports it
Prepare ==
    /\ pc = "extract"
    /\ pdf.readable
    /\ \E cleaned_ \in {clean_text(pdf.text)} :
       \E chunks_ \in {chunk_text(cleaned_, ChunkSize)} :
       \E cached \in {load_existing_chunk_summaries(cache_file)} :
           /\ raw_text' = pdf.text
           /\ cleaned_text' = cleaned_
           /\ doc_chunks' = chunks_
           /\ IF cached.exc # "none"
              THEN /\ pc' = "aborted"
                   /\ abort_exc' = cached.exc
                   /\ UNCHANGED <<chunk_summaries, cache_file, cache_writes, last_written>>
              ELSE IF ~IsCacheMiss(cached.val)
              THEN /\ pc' = "combine"
                   /\ chunk_summaries' = cached.val
                   /\ UNCHANGED <<abort_exc, cache_file, cache_writes, last_written>>
              ELSE IF chunks_ = <<>>
              THEN /\ pc' = "combine"
                   /\ chunk_summaries' = ListV(<<>>)
                   /\ cache_file' = export_chunk_summaries(ListV(<<>>))
                   /\ cache_writes' = cache_writes + 1
                   /\ last_written' = ListV(<<>>)
                   /\ UNCHANGED abort_exc
              ELSE /\ pc' = "summarize"
                   /\ UNCHANGED <<chunk_summaries, abort_exc, cache_file, cache_writes,
                                  last_written>>
    /\ UNCHANGED <<pdf, summaries, combine_arg, final_summary, sections, rule_checks,
                   results, calls, output_file, start_cache, output_writes, outsidePipe>>

\* a loop that exports the summaries made so far after every chunk
SummarizeChunkSaving ==
    /\ pc = "summarize"
    /\ \E reply \in ChunkResponses :
        LET chunk == doc_chunks[Len(summaries) + 1]
            acc == AppendSummary(summaries, TextOrEmpty(reply))
            all == ListV([k \in 1..Len(acc) |-> Str(acc[k])])
        IN  /\ calls' = Append(calls, Call("summarize_chunk", chunk, reply))
            /\ summaries' = acc
            /\ cache_file' = export_chunk_summaries(all)
            /\ cache_writes' = cache_writes + 1
            /\ last_written' = all
            /\ IF Len(acc) = Len(doc_chunks)
               THEN chunk_summaries' = all /\ pc' = "combine"
               ELSE UNCHANGED <<chunk_summaries, pc>>
    /\ UNCHANGED <<pdf, raw_text, cleaned_text, doc_chunks, combine_arg, final_summary,
                   sections, rule_checks, results, abort_exc, output_file, start_cache,
                   output_writes, outsidePipe>>

\* one turn of the loop of summarize_chunks; after the last one, lines 114
\* and 116: the list is assigned and exported
SummarizeChunk ==
    /\ pc = "summarize"
    /\ \E reply \in ChunkResponses :
        LET chunk == doc_chunks[Len(summaries) + 1]
            acc == AppendSummary(summaries, TextOrEmpty(reply))
            all == ListV([k \in 1..Len(acc) |-> Str(acc[k])])
        IN  /\ calls' = Append(calls, Call("summarize_chunk", chunk, reply))
            /\ summaries' = acc
            /\ IF Len(acc) = Len(doc_chunks)
               THEN /\ chunk_summaries' = all
                    /\ cache_file' = export_chunk_summaries(all)
                    /\ cache_writes' = cache_writes + 1
                    /\ last_written' = all
                    /\ pc' = "combine"
               ELSE UNCHANGED <<chunk_summaries, cache_file, cache_writes, last_written, pc>>
    /\ UNCHANGED <<pdf, raw_text, cleaned_text, doc_chunks, combine_arg, final_summary,
                   sections, rule_checks, results, abort_exc, output_file, start_cache,
                   output_writes, outsidePipe>>

\* generate_content raises inside summarize_chunk
SummarizeChunkFails ==
    /\ pc = "summarize"
    /\ calls' = Append(calls, FailedCall("summarize_chunk", doc_chunks[Len(summaries) + 1]))
    /\ pc' = "aborted"
    /\ abort_exc' = "ServiceError"
    /\ UNCHANGED <<pdf, raw_text, cleaned_text, doc_chunks, summaries, chunk_summaries,
                   combine_arg, final_summary, sections, rule_checks, results,
                   output_file, start_cache, cache_writes, output_writes, cache_file,
                   outsidePipe, last_written>>

\* combine_summaries(chunk_summaries) raises before it calls the model
CombineRaises ==
    /\ pc = "combine"
    /\ CombinedText(chunk_summaries).exc # "none"
    /\ combine_arg' = chunk_summaries
    /\ pc' = "aborted"
    /\ abort_exc' = CombinedText(chunk_summaries).exc
    /\ UNCHANGED <<pdf, raw_text, cleaned_text, doc_chunks, summaries, chunk_summaries,
                   final_summary, sections, rule_checks, results, calls, output_file,
                   start_cache, cache_writes, output_writes, cache_file, outsidePipe, last_written>>

\* step 5: combine_summaries(chunk_summaries)
Combine ==
    /\ pc = "combine"
    /\ CombinedText(chunk_summaries).exc = "none"
    /\ \E reply \in CombineResponses :
        /\ calls' = Append(calls, Call("combine_summaries",
                                       CombinedText(chunk_summaries).val.v, reply))
        /\ final_summary' = TextOrEmpty(reply)
    /\ combine_arg' = chunk_summaries
    /\ pc' = "sections"
    /\ UNCHANGED <<pdf, raw_text, cleaned_text, doc_chunks, summaries, chunk_summaries,
                   sections, rule_checks, results, abort_exc, output_file, start_cache,
                   cache_writes, output_writes, cache_file, outsidePipe, last_written>>

\* generate_content raises inside combine_summaries
CombineFails ==
    /\ pc = "combine"
    /\ CombinedText(chunk_summaries).exc = "none"
    /\ calls' = Append(calls, FailedCall("combine_summaries",
                                         CombinedText(chunk_summaries).val.v))
    /\ combine_arg' = chunk_summaries
    /\ pc' = "aborted"
    /\ abort_exc' = "ServiceError"
    /\ UNCHANGED <<pdf, raw_text, cleaned_text, doc_chunks, summaries, chunk_summaries,
                   final_summary, sections, rule_checks, results, output_file,
                   start_cache, cache_writes, output_writes, cache_file, outsidePipe, last_written>>

\* step 6: extract_sections(cleaned_text); what json.loads raises and the
\* except clause of line 67 does not catch leaves process_legislation
Sections ==
    /\ pc = "sections"
    /\ \E reply \in SectionReplies :
       \E out \in {extract_sections(reply)} :
        /\ calls' = Append(calls, Call("extract_sections", cleaned_text, reply))
        /\ IF out.exc = "none"
           THEN /\ sections' = out.val
                /\ pc' = "rules"
                /\ UNCHANGED abort_exc
           ELSE /\ pc' = "aborted"
                /\ abort_exc' = out.exc
                /\ UNCHANGED sections
    /\ UNCHANGED <<pdf, raw_text, cleaned_text, doc_chunks, summaries, chunk_summaries,
                   combine_arg, final_summary, rule_checks, results,
                   output_file, start_cache, cache_writes, output_writes, cache_file,
                   outsidePipe, last_written>>

\* an extract_sections whose try statement covers the call of the model: the
\* failure is answered with the fallback and the run goes on
SectionsFailsAbsorbed ==
    /\ pc = "sections"
    /\ calls' = Append(calls, FailedCall("extract_sections", cleaned_text))
    /\ sections' = FallbackSections
    /\ pc' = "rules"
    /\ UNCHANGED <<pdf, raw_text, cleaned_text, doc_chunks, summaries, chunk_summaries,
                   combine_arg, final_summary, rule_checks, results, abort_exc,
                   output_file, start_cache, cache_writes, output_writes, cache_file,
                   outsidePipe, last_written>>

\* generate_content raises inside extract_sections
SectionsFails ==
    /\ pc = "sections"
    /\ calls' = Append(calls, FailedCall("extract_sections", cleaned_text))
    /\ pc' = "aborted"
    /\ abort_exc' = "ServiceError"
    /\ UNCHANGED <<pdf, raw_text, cleaned_text, doc_chunks, summaries, chunk_summaries,
                   combine_arg, final_summary, sections, rule_checks, results,
                   output_file, start_cache, cache_writes, output_writes, cache_file,
                   outsidePipe, last_written>>

\* step 7: apply_rule_checks(cleaned_text); what json.loads raises and the
\* except clause of line 94 does not catch leaves process_legislation
RuleChecks ==
    /\ pc = "rules"
    /\ \E reply \in RuleReplies :
       \E out \in {apply_rule_checks(reply)} :
        /\ calls' = Append(calls, Call("apply_rule_checks", cleaned_text, reply))
        /\ IF out.exc = "none"
           THEN /\ rule_checks' = out.val
                /\ pc' = "export"
                /\ UNCHANGED abort_exc
           ELSE /\ pc' = "aborted"
                /\ abort_exc' = out.exc
                /\ UNCHANGED rule_checks
    /\ UNCHANGED <<pdf, raw_text, cleaned_text, doc_chunks, summaries, chunk_summaries,
                   combine_arg, final_summary, sections, results,
                   output_file, start_cache, cache_writes, output_writes, cache_file,
                   outsidePipe, last_written>>

\* generate_content raises inside apply_rule_checks
RuleChecksFails ==
    /\ pc = "rules"
    /\ calls' = Append(calls, FailedCall("apply_rule_checks", cleaned_text))
    /\ pc' = "aborted"
    /\ abort_exc' = "ServiceError"
    /\ UNCHANGED <<pdf, raw_text, cleaned_text, doc_chunks, summaries, chunk_summaries,
                   combine_arg, final_summary, sections, rule_checks, results,
                   output_file, start_cache, cache_writes, output_writes, cache_file,
                   outsidePipe, last_written>>

\* step 8 and the return, lines 130 to 139
Export ==
    /\ pc = "export"
    /\ output_file' = export_json(final_summary, sections, rule_checks)
    /\ output_writes' = output_writes + 1
    /\ results' = ResultsOf(final_summary, sections, rule_checks, chunk_summaries)
    /\ pc' = "done"
    /\ UNCHANGED <<pdf, raw_text, cleaned_text, doc_chunks, summaries, chunk_summaries,
                   combine_arg, final_summary, sections, rule_checks, abort_exc, calls,
                   start_cache, cache_writes, cache_file, outsidePipe, last_written>>

Next ==
    \/ StartRun
    \/ ExtractFails
    \/ Prepare
    \/ SummarizeChunk
    \/ SummarizeChunkFails
    \/ CombineRaises
    \/ Combine
    \/ CombineFails
    \/ Sections
    \/ SectionsFails
    \/ RuleChecks
    \/ RuleChecksFails
    \/ Export

Spec == Init /\ [][Next]_vars

(***************************************************************************)
(* C1: once chunk_text(text, chunk_size) has run with chunk_size > 0, the  *)
(* chunks concatenate to text, none is empty or longer than chunk_size,    *)
(* and all but the last have length chunk_size.                            *)
(***************************************************************************)
ChunkPartition ==
    tstep = "chunked" =>
        /\ Concat(chunks) = text
        /\ \A k \in 1..Len(chunks) :
            /\ Len(chunks[k]) >= 1
            /\ Len(chunks[k]) <= chunk_size
            /\ (k < Len(chunks) => Len(chunks[k]) = chunk_size)
        /\ (text = <<>> => chunks = <<>>)

\* a text whose length is a multiple of chunk_size, split in several chunks
ChunkPartitionWitness ==
    /\ tstep = "chunked"
    /\ Len(text) = 2 * chunk_size
    /\ Len(chunks) = 2
    /\ chunk_size > 1

(***************************************************************************)
(* C2: clean_text is idempotent: cleaning a cleaned text changes nothing.  *)
(***************************************************************************)
CleanIdempotent == tstep = "recleaned" => recleaned = cleaned

(***************************************************************************)
(* C3: a cleaned text holds no "Page N of M" marker and no run of two or   *)
(* more newlines.                                                          *)
(***************************************************************************)
HasPageMarker(s) == \E i \in 1..Len(s) : MatchPageMarker(s, i) # 0
HasNewlineRun(s) == \E i \in 1..(Len(s) - 1) : IsNewline(s[i]) /\ IsNewline(s[i + 1])

CleanNoMarker ==
    tstep = "cleaned" => ~HasPageMarker(cleaned) /\ ~HasNewlineRun(cleaned)

(***************************************************************************)
(* C4: cache round trip: a load right after an export of a list of strings *)
(* returns that list, the empty list included (and not None).              *)
(***************************************************************************)
CacheRoundTrip ==
    cstep = "loaded_saved" => loaded = Ok(ListV(saved))

\* a saved list whose strings need escaping has been loaded back
CacheRoundTripWitness ==
    /\ cstep = "loaded_saved"
    /\ Len(saved) = 2
    /\ saved[1] = Str(<<"a", "\"", "b">>)
    /\ saved[2] = Str(<<"\n">>)

(***************************************************************************)
(* C5: cache miss: the load returns None, and raises nothing, when the     *)
(* file does not exist, when it is not JSON, and when it is JSON without a *)
(* chunk_summaries field (a JSON value that is no object included).        *)
(***************************************************************************)
LacksField(f) ==
    \/ ~f.exists
    \/ ~json_loads(f.content).ok
    \/ json_loads(f.content).val.t # "dict"
    \/ CHUNK_SUMMARIES \notin DictKeys(json_loads(f.content).val)

CacheMiss ==
    cstep = "loaded_initial" /\ LacksField(cache_file) => loaded = Ok(NullV)

\* the file holds the JSON list ["chunk_summaries"]: the membership test
\* succeeds and the subscript raises
CacheMissWitness ==
    /\ cstep = "loaded_initial"
    /\ cache_file.exists
    /\ json_loads(cache_file.content).ok
    /\ json_loads(cache_file.content).val = ListV(<<Str(CHUNK_SUMMARIES)>>)
    /\ loaded = Ok(NullV)

(***************************************************************************)
(* C6: cache-read errors are never fatal: whatever the cache file holds,   *)
(* process_legislation does not abort because of the cache; the summaries  *)
(* it goes on with are a list of strings, taken from the cache or made by  *)
(* summarizing the chunks after a cache miss.                              *)
(***************************************************************************)
\* a run aborts on a document it cannot read, on a call of the model that
\* failed, or on the response to a call
AbortedElsewhere ==
    \/ abort_exc = "DocumentReadError"
    \/ calls # <<>> /\ ~calls[Len(calls)].ok /\ abort_exc = "ServiceError"
    \/ calls # <<>> /\ calls[Len(calls)].ok
           /\ calls[Len(calls)].kind \in {"extract_sections", "apply_rule_checks"}

CacheNeverFatal ==
    /\ (pc = "aborted" => AbortedElsewhere)
    /\ (chunk_summaries # NullV => IsStrList(chunk_summaries))

(***************************************************************************)
(* C7: cache hit: in a run that starts with a present and well-formed      *)
(* cache, no summarize_chunk call is made, the cache file is not written,  *)
(* and combine_summaries and the result's chunk_summaries get exactly the  *)
(* cached list.                                                            *)
(***************************************************************************)
WellFormedCache(f) ==
    /\ f.exists
    /\ json_loads(f.content).ok
    /\ json_loads(f.content).val.t = "dict"
    /\ CHUNK_SUMMARIES \in DictKeys(json_loads(f.content).val)
    /\ IsStrList(DictGet(json_loads(f.content).val, CHUNK_SUMMARIES))

CachedList(f) == DictGet(json_loads(f.content).val, CHUNK_SUMMARIES)

CallsOf(kind) == SelectSeq(calls, LAMBDA c : c.kind = kind)

CacheHitRun ==
    WellFormedCache(start_cache) =>
        /\ CallsOf("summarize_chunk") = <<>>
        /\ cache_file = start_cache
        /\ cache_writes = 0
        /\ (pc \in {"sections", "rules", "export", "done"} =>
                /\ combine_arg = CachedList(start_cache)
                /\ Len(CallsOf("combine_summaries")) = 1
                /\ CallsOf("combine_summaries")[1].arg
                       = JoinSeq(<<"\n", "\n">>,
                                 [k \in 1..Len(CachedList(start_cache).v) |->
                                     CachedList(start_cache).v[k].v]))
        /\ (pc = "done" => DictGet(results, CHUNK_SUMMARIES) = CachedList(start_cache))

\* a run on a document of another number of chunks has ended with the two
\* cached summaries
CacheHitRunWitness ==
    /\ pc = "done"
    /\ start_cache = export_chunk_summaries(ListV(<<Str(<<"a">>), Str(<<"b">>)>>))
    /\ Len(doc_chunks) = 1
    /\ DictGet(results, CHUNK_SUMMARIES) = ListV(<<Str(<<"a">>), Str(<<"b">>)>>)
    /\ CallsOf("summarize_chunk") = <<>>

(***************************************************************************)
(* C8, as stated: in the result of every completed run, chunk_summaries    *)
(* is as long as the chunks of the run's document, and its i-th element is *)
(* the summary produced from the i-th chunk.                               *)
(***************************************************************************)
SummariesFollowChunks ==
    LET made == CallsOf("summarize_chunk")
        got == DictGet(results, CHUNK_SUMMARIES)
    IN  /\ got.t = "list"
        /\ Len(got.v) = Len(doc_chunks)
        /\ Len(made) = Len(doc_chunks)
        /\ \A i \in 1..Len(doc_chunks) :
            /\ made[i].ok
            /\ made[i].arg = doc_chunks[i]
            /\ got.v[i] = Str(made[i].ret)

ChunkSummariesOrder == pc = "done" => SummariesFollowChunks

(***************************************************************************)
(* C8, amended: in the result of every completed run that started with a   *)
(* cache miss, chunk_summaries is as long as the chunks of the run's       *)
(* document, and its i-th element is the summary produced from the i-th    *)
(* chunk. (After a cache hit the result holds the cached value, whatever   *)
(* the chunks of the document.)                                            *)
(***************************************************************************)
ChunkSummariesOrderOnMiss ==
    pc = "done" /\ load_existing_chunk_summaries(start_cache) = Ok(NullV)
        => SummariesFollowChunks

\* a run that missed the cache has ended with several chunks whose summaries
\* differ
ChunkSummariesOrderWitness ==
    /\ pc = "done"
    /\ load_existing_chunk_summaries(start_cache) = Ok(NullV)
    /\ Len(doc_chunks) >= 2
    /\ DictGet(results, CHUNK_SUMMARIES).v[1] = Str(<<"x">>)
    /\ DictGet(results, CHUNK_SUMMARIES).v[2] = Str(<<>>)

(***************************************************************************)
(* C12: a failure of the external service is fatal and not retried: when   *)
(* a call of the model fails in process_legislation, the run aborts at     *)
(* that call with the failure propagated, the call is not made again, no   *)
(* later step runs, and the output file is not written in that run.        *)
(***************************************************************************)
NoStepAfter(kind) ==
    /\ (kind = "summarize_chunk" =>
            chunk_summaries = NullV /\ cache_writes = 0 /\ combine_arg = NullV)
    /\ (kind \in {"summarize_chunk", "combine_summaries"} => final_summary = <<>>)
    /\ (kind \in {"summarize_chunk", "combine_summaries", "extract_sections"} =>
            sections = NullV)
    /\ rule_checks = NullV
    /\ results = NullV
    /\ output_writes = 0

ServiceFailureFatal ==
    \A k \in 1..Len(calls) :
        ~calls[k].ok =>
            /\ k = Len(calls)
            /\ pc = "aborted"
            /\ abort_exc = "ServiceError"
            /\ NoStepAfter(calls[k].kind)

\* the summary of the second chunk has failed, after the first one was made
ServiceFailureFatalWitness ==
    /\ pc = "aborted"
    /\ abort_exc = "ServiceError"
    /\ Len(calls) = 2
    /\ calls[1].ok /\ calls[1].kind = "summarize_chunk"
    /\ ~calls[2].ok /\ calls[2].kind = "summarize_chunk"
    /\ output_writes = 0

(***************************************************************************)
(* C13: malformed response content is never fatal: in a run whose document *)
(* is read, whose cache is absent or well-formed and whose calls of the    *)
(* model all return a response text, whatever it holds,                    *)
(* process_legislation does not abort; it ends having written the output   *)
(* file exactly once, with the result's four fields summary, sections,     *)
(* rule_checks and chunk_summaries, the first three as exported.           *)
(***************************************************************************)
ContentOnlyRun ==
    /\ pc \notin {"off", "idle"}
    /\ pdf.readable
    /\ (~start_cache.exists \/ WellFormedCache(start_cache))
    /\ \A k \in 1..Len(calls) : calls[k].ok

ResultAsExported ==
    /\ output_writes = 1
    /\ results.t = "dict"
    /\ Len(results.v) = 4
    /\ DictKeys(results) = {SUMMARY, SECTIONS, RULE_CHECKS, CHUNK_SUMMARIES}
    /\ DictGet(results, SUMMARY).t = "str"
    /\ output_file = export_json(DictGet(results, SUMMARY).v,
                                 DictGet(results, SECTIONS),
                                 DictGet(results, RULE_CHECKS))
    /\ json_loads(output_file.content)
           = Parsed(DictV(<< <<SUMMARY, DictGet(results, SUMMARY)>>,
                             <<SECTIONS, DictGet(results, SECTIONS)>>,
                             <<RULE_CHECKS, DictGet(results, RULE_CHECKS)>> >>),
                    Len(output_file.content) + 1)

ContentNeverFatal ==
    ContentOnlyRun =>
        /\ pc # "aborted"
        /\ (pc = "done" => ResultAsExported)
        /\ (pc # "done" => output_writes = 0 /\ results = NullV)

(***************************************************************************)
(* C14: the cache file is written at most once in a run, only after a      *)
(* cache miss, only once every chunk of the run has been summarized, and   *)
(* before the combination call; after a cache hit, and in a run that       *)
(* aborts before all chunks are summarized, the file is as the run found   *)
(* it: no partial list of summaries is ever in it.                         *)
(***************************************************************************)
SummariesMade ==
    ListV([k \in 1..Len(CallsOf("summarize_chunk")) |->
              Str(CallsOf("summarize_chunk")[k].ret)])

CacheWrittenOnce ==
    /\ cache_writes \in {0, 1}
    /\ (cache_writes = 0 => cache_file = start_cache)
    /\ (cache_writes = 1 =>
            /\ load_existing_chunk_summaries(start_cache) = Ok(NullV)
            /\ Len(CallsOf("summarize_chunk")) = Len(doc_chunks)
            /\ \A k \in 1..Len(doc_chunks) :
                   CallsOf("summarize_chunk")[k].ok
                       /\ CallsOf("summarize_chunk")[k].arg = doc_chunks[k]
            /\ cache_file = export_chunk_summaries(SummariesMade))
    /\ (load_existing_chunk_summaries(start_cache) # Ok(NullV) => cache_writes = 0)
    /\ (CallsOf("combine_summaries") # <<>>
            /\ load_existing_chunk_summaries(start_cache) = Ok(NullV)
         => cache_writes = 1)

\* the summaries of several chunks have just been written, the combination
\* call not yet made
CacheWrittenOnceWitness ==
    /\ pc = "combine"
    /\ cache_writes = 1
    /\ Len(doc_chunks) >= 2
    /\ calls = CallsOf("summarize_chunk")
    /\ cache_file = export_chunk_summaries(SummariesMade)
    /\ cache_file # start_cache

\* the summary of a later chunk has failed and the cache file is as it was
CacheUntouchedWitness ==
    /\ pc = "aborted"
    /\ Len(calls) = 2
    /\ calls[1].ok /\ ~calls[2].ok
    /\ start_cache = FileOf(PlainText)
    /\ cache_file = start_cache

(***************************************************************************)
(* C15: resumption across runs: once a run has summarized all its chunks   *)
(* and written the cache, even if it aborted afterwards, every later run,  *)
(* on the same or another document, makes no summarize_chunk call and has  *)
(* exactly the summaries written by that run as its chunk_summaries.       *)
(***************************************************************************)
\* a run later than the one that wrote the cache
LaterRun == last_written # NullV /\ cache_writes = 0 /\ pc \notin {"off", "idle"}

\* the run has passed line 111
PastCacheCheck ==
    \/ pc \in {"combine", "sections", "rules", "export", "done"}
    \/ pc = "aborted" /\ abort_exc # "DocumentReadError"

ResumeFromCache ==
    LaterRun =>
        /\ pc # "summarize"
        /\ CallsOf("summarize_chunk") = <<>>
        /\ cache_file = start_cache
        /\ (PastCacheCheck => chunk_summaries = last_written)
        /\ (combine_arg # NullV => combine_arg = last_written)
        /\ (pc = "done" => DictGet(results, CHUNK_SUMMARIES) = last_written)

\* a run on a document of one chunk has ended with the three summaries an
\* earlier run wrote
ResumeFromCacheWitness ==
    /\ LaterRun
    /\ pc = "done"
    /\ Len(doc_chunks) = 1
    /\ Len(last_written.v) = 3
    /\ last_written.v[1] # last_written.v[2]
    /\ DictGet(results, CHUNK_SUMMARIES) = last_written

(***************************************************************************)
(* C9: section-extractor fallback: when the response, after the fence      *)
(* extraction, is not valid JSON (the empty response included),            *)
(* extract_sections raises nothing and returns a dict of exactly the seven *)
(* section keys, each with the empty string.                               *)
(***************************************************************************)
SevenKeys ==
    {DEFINITIONS, OBLIGATIONS, RESPONSIBILITIES, ELIGIBILITY, PAYMENTS, PENALTIES,
     RECORD_KEEPING}

IsAllEmptySectionMap(out) ==
    /\ out.exc = "none"
    /\ out.val.t = "dict"
    /\ Len(out.val.v) = 7
    /\ DictKeys(out.val) = SevenKeys
    /\ \A key \in SevenKeys : DictGet(out.val, key) = Str(<<>>)

SectionFallback ==
    sstep = "extracted" /\ ~json_loads(FenceGroup(response, {"{"})).ok
        => IsAllEmptySectionMap(sections_out)

(***************************************************************************)
(* C11: rule-checker fallback: when the response, after the fence          *)
(* extraction, is not valid JSON or is a JSON value that is no list,       *)
(* apply_rule_checks returns exactly six records, one per entry of         *)
(* LEGAL_DOCUMENT_RULES in that order, each with the rule string, status   *)
(* fail, confidence 0 and the evidence placeholder; when it is a JSON      *)
(* list, that list is returned as it is.                                   *)
(***************************************************************************)
IsDefaultRecord(record, rule) ==
    /\ record.t = "dict"
    /\ DictKeys(record) = {RULE, STATUS, EVIDENCE, CONFIDENCE}
    /\ Len(record.v) = 4
    /\ DictGet(record, RULE) = Str(rule)
    /\ DictGet(record, STATUS) = Str(<<"f", "a", "i", "l">>)
    /\ DictGet(record, CONFIDENCE) = Num(0)
    /\ DictGet(record, EVIDENCE) = Str(COULD_NOT_PROCESS)

IsDefaultChecks(out) ==
    /\ out.exc = "none"
    /\ out.val.t = "list"
    /\ Len(out.val.v) = 6
    /\ Len(LEGAL_DOCUMENT_RULES) = 6
    /\ \A k \in 1..6 : IsDefaultRecord(out.val.v[k], LEGAL_DOCUMENT_RULES[k])

RuleFallback ==
    sstep = "checked" =>
        IF json_loads(FenceGroup(response, {"{", "["})).ok
            /\ json_loads(FenceGroup(response, {"{", "["})).val.t = "list"
        THEN checks_out = Ok(json_loads(FenceGroup(response, {"{", "["})).val)
        ELSE IsDefaultChecks(checks_out)

(***************************************************************************)
(* C10: the section map is total: whatever the response, extract_sections  *)
(* returns a dict that holds each of the seven section keys, and a         *)
(* response that parses to something other than a dict gives the          *)
(* all-empty fallback.                                                     *)
(***************************************************************************)
SectionMapTotal ==
    sstep = "extracted" =>
        /\ sections_out.exc = "none"
        /\ sections_out.val.t = "dict"
        /\ SevenKeys \subseteq DictKeys(sections_out.val)
        /\ (json_loads(FenceGroup(response, {"{"})).ok
                /\ json_loads(FenceGroup(response, {"{"})).val.t # "dict"
            => IsAllEmptySectionMap(sections_out))

====
